---- MODULE Spec2Model ----
(***************************************************************************)
(* LocalWallet: the card store (src/src/services/storage.ts), the format   *)
(* classifier (barcodeService.ts), the brand resolver (brandService.ts)    *)
(* and the Settings view's wipe and import handlers, as a state machine.   *)
(*                                                                         *)
(* Strings are sequences of UTF-16 code units (naturals), so that          *)
(* toLowerCase, charCodeAt, includes and the regular expressions are       *)
(* computed as the code computes them.  JavaScript values that the code    *)
(* tests for truthiness or calls string methods on are tagged records.     *)
(***************************************************************************)
EXTENDS Integers, Sequences, FiniteSets, Bags, TLC

VARIABLES slot, now, drawn, calls, last, script

vars == <<slot, now, drawn, calls, last, script>>

(***************************************************************************)
(* Bounds of the model.                                                    *)
(***************************************************************************)
\* Date.now() ranges over 1..MaxTime.
MaxTime == 2
\* Math.random().toString(36).substring(2, 11) ranges over 1..NumRnd.
NumRnd == 1
\* Asynchronous calls (createCard, importCards) issued in one behaviour.
MaxCalls == 2

(***************************************************************************)
(* JavaScript values.                                                      *)
(***************************************************************************)
Undef == [t |-> "undefined"]
JNull == [t |-> "null"]
JStr(s) == [t |-> "string", s |-> s]
JNum(n) == [t |-> "number", n |-> n]

IsStr(v) == v.t = "string"

\* ToBoolean: undefined, null, "" and 0 are falsy.
Truthy(v) ==
    CASE v.t = "undefined" -> FALSE
      [] v.t = "null" -> FALSE
      [] v.t = "string" -> Len(v.s) > 0
      [] v.t = "number" -> v.n # 0
      [] OTHER -> TRUE

\* item.<field> for a parsed JSON element: a TypeError for null, undefined
\* for a primitive, the field's value (or undefined) for an object.
PropThrows(item) == item.t \in {"null", "undefined"}

Prop(item, field) ==
    IF item.t = "object" /\ field \in DOMAIN item.f THEN item.f[field] ELSE Undef

JObj(f) == [t |-> "object", f |-> f]

(***************************************************************************)
(* String helpers over code units.                                         *)
(***************************************************************************)
RECURSIVE FilterSeq(_, _)
FilterSeq(s, keep) ==
    IF s = <<>> THEN <<>>
    ELSE IF Head(s) \in keep THEN <<Head(s)>> \o FilterSeq(Tail(s), keep)
         ELSE FilterSeq(Tail(s), keep)

RECURSIVE DropChars(_, _)
DropChars(s, drop) ==
    IF s = <<>> THEN <<>>
    ELSE IF Head(s) \in drop THEN DropChars(Tail(s), drop)
         ELSE <<Head(s)>> \o DropChars(Tail(s), drop)

\* String.prototype.toLowerCase on the ASCII letters (the store names of the
\* model are ASCII).
toLowerCase(s) == [i \in 1..Len(s) |-> IF s[i] \in 65..90 THEN s[i] + 32 ELSE s[i]]

\* String.prototype.toUpperCase, one code unit at a time: the ASCII letters,
\* and the code units above 127 whose upper case is made of ASCII letters
\* (Unicode SpecialCasing and UnicodeData): U+00DF sharp s -> "SS",
\* U+0131 dotless i -> "I", U+017F long s -> "S".  Every other code unit
\* above 127 maps to code units above 127 and is kept as it is.
UpperOf(ch) ==
    IF ch \in 97..122 THEN <<ch - 32>>
    ELSE IF ch = 223 THEN <<83, 83>>
    ELSE IF ch = 305 THEN <<73>>
    ELSE IF ch = 383 THEN <<83>>
    ELSE <<ch>>

RECURSIVE toUpperCase(_)
toUpperCase(s) ==
    IF s = <<>> THEN <<>> ELSE UpperOf(Head(s)) \o toUpperCase(Tail(s))

\* String.prototype.includes: needle occurs as a substring of hay.
includes(hay, needle) ==
    \E i \in 0..(Len(hay) - Len(needle)) :
        \A j \in 1..Len(needle) : hay[i + j] = needle[j]

\* The characters \s matches (the ASCII ones and the no-break space).
Whitespace == {9, 10, 11, 12, 13, 32, 160}
Hyphen == 45
Apostrophe == 39
Digits == 48..57

(***************************************************************************)
(* barcodeService.ts                                                       *)
(***************************************************************************)
\* /^[A-Z0-9\-\.\ \$\/\+\%]+$/
Code39Alphabet == (65..90) \cup Digits \cup {45, 46, 32, 36, 47, 43, 37}

FORMATS == {"CODE128", "EAN13", "EAN8", "UPC", "CODE39", "QR"}

\* A classifier that tries the Code-39 rule before the digit rules.
detectBarcodeFormat_code39First(cardNumber) ==
    LET cleaned == DropChars(cardNumber, Whitespace \cup {Hyphen})
        isNumeric == Len(cleaned) > 0 /\ \A i \in 1..Len(cleaned) : cleaned[i] \in Digits
        upper == toUpperCase(cleaned)
    IN  IF /\ Len(upper) > 0
           /\ \A i \in 1..Len(upper) : upper[i] \in Code39Alphabet
           /\ Len(cleaned) <= 20 THEN "CODE39"
        ELSE IF isNumeric /\ Len(cleaned) = 13 THEN "EAN13"
        ELSE IF isNumeric /\ Len(cleaned) = 8 THEN "EAN8"
        ELSE IF isNumeric /\ Len(cleaned) = 12 THEN "UPC"
        ELSE IF Len(cleaned) > 30 THEN "QR"
        ELSE "CODE128"

detectBarcodeFormat(cardNumber) ==
    LET cleaned == DropChars(cardNumber, Whitespace \cup {Hyphen})
        isNumeric == Len(cleaned) > 0 /\ \A i \in 1..Len(cleaned) : cleaned[i] \in Digits
        upper == toUpperCase(cleaned)
    IN  IF isNumeric /\ Len(cleaned) = 13 THEN "EAN13"
        ELSE IF isNumeric /\ Len(cleaned) = 8 THEN "EAN8"
        ELSE IF isNumeric /\ Len(cleaned) = 12 THEN "UPC"
        ELSE IF /\ Len(upper) > 0
                /\ \A i \in 1..Len(upper) : upper[i] \in Code39Alphabet
                /\ Len(cleaned) <= 20 THEN "CODE39"
        ELSE IF Len(cleaned) > 30 THEN "QR"
        ELSE "CODE128"

(***************************************************************************)
(* brandService.ts                                                         *)
(***************************************************************************)
BRAND_COLORS ==
    <<
       [brand |-> <<105,107,101,97>>, color |-> "#0058A3"],  \* 'ikea'
       [brand |-> <<108,105,100,108>>, color |-> "#0050AA"],  \* 'lidl'
       [brand |-> <<97,108,100,105>>, color |-> "#00005F"],  \* 'aldi'
       [brand |-> <<97,108,98,101,114,116,32,104,101,105,106,110>>, color |-> "#00A0E2"],  \* 'albert heijn'
       [brand |-> <<97,104>>, color |-> "#00A0E2"],  \* 'ah'
       [brand |-> <<106,117,109,98,111>>, color |-> "#FFD100"],  \* 'jumbo'
       [brand |-> <<112,108,117,115>>, color |-> "#E30613"],  \* 'plus'
       [brand |-> <<115,112,97,114>>, color |-> "#009639"],  \* 'spar'
       [brand |-> <<119,97,108,109,97,114,116>>, color |-> "#0071DC"],  \* 'walmart'
       [brand |-> <<116,97,114,103,101,116>>, color |-> "#CC0000"],  \* 'target'
       [brand |-> <<99,111,115,116,99,111>>, color |-> "#005DAA"],  \* 'costco'
       [brand |-> <<115,116,97,114,98,117,99,107,115>>, color |-> "#00704A"],  \* 'starbucks'
       [brand |-> <<109,99,100,111,110,97,108,100,115>>, color |-> "#FFC72C"],  \* 'mcdonalds'
       [brand |-> <<97,109,97,122,111,110>>, color |-> "#FF9900"],  \* 'amazon'
       [brand |-> <<104,111,109,101,32,100,101,112,111,116>>, color |-> "#F96302"],  \* 'home depot'
       [brand |-> <<108,101,114,111,121,32,109,101,114,108,105,110>>, color |-> "#78BE20"],  \* 'leroy merlin'
       [brand |-> <<104,111,114,110,98,97,99,104>>, color |-> "#FF6600"],  \* 'hornbach'
       [brand |-> <<103,97,109,109,97>>, color |-> "#009639"],  \* 'gamma'
       [brand |-> <<112,114,97,120,105,115>>, color |-> "#00A651"],  \* 'praxis'
       [brand |-> <<104,109>>, color |-> "#E50010"],  \* 'hm'
       [brand |-> <<104,38,109>>, color |-> "#E50010"],  \* 'h&m'
       [brand |-> <<122,97,114,97>>, color |-> "#000000"],  \* 'zara'
       [brand |-> <<112,114,105,109,97,114,107>>, color |-> "#0063B2"],  \* 'primark'
       [brand |-> <<109,101,100,105,97,109,97,114,107,116>>, color |-> "#DF0000"],  \* 'mediamarkt'
       [brand |-> <<99,111,111,108,98,108,117,101>>, color |-> "#0090E3"],  \* 'coolblue'
       [brand |-> <<98,101,115,116,32,98,117,121>>, color |-> "#0046BE"],  \* 'best buy'
       [brand |-> <<97,99,116,105,111,110>>, color |-> "#00A651"],  \* 'action'
       [brand |-> <<104,101,109,97>>, color |-> "#CC0000"],  \* 'hema'
       [brand |-> <<107,114,117,105,100,118,97,116>>, color |-> "#E30613"],  \* 'kruidvat'
       [brand |-> <<101,116,111,115>>, color |-> "#7AB800"],  \* 'etos'
       [brand |-> <<100,101,99,97,116,104,108,111,110>>, color |-> "#007DBC"],  \* 'decathlon'
       [brand |-> <<110,105,107,101>>, color |-> "#000000"],  \* 'nike'
       [brand |-> <<97,100,105,100,97,115>>, color |-> "#000000"]   \* 'adidas'
    >>

DEFAULT_COLORS ==
    << "#6366F1", "#8B5CF6", "#EC4899", "#EF4444", "#F59E0B",
       "#22C55E", "#14B8A6", "#06B6D4", "#3B82F6", "#A855F7" >>

NoColor == ""

\* BRAND_COLORS is an object literal, so BRAND_COLORS[lower] also finds the
\* members it inherits from Object.prototype.  A lower-cased name can spell
\* two of them, both truthy: "constructor" (the function Object) and
\* "__proto__" (Object.prototype itself).
S_constructor == <<99,111,110,115,116,114,117,99,116,111,114>>
S_proto == <<95,95,112,114,111,116,111,95,95>>
ObjectFunction == "[Function: Object]"
ObjectPrototype == "[Object: null prototype] {}"

\* BRAND_COLORS[lower], then the first entry (in table order) that lower
\* contains or that contains lower; NoColor stands for null.
getKnownColor(name) ==
    LET lower == toLowerCase(name)
        exact == {i \in 1..Len(BRAND_COLORS) : BRAND_COLORS[i].brand = lower}
        partial == {i \in 1..Len(BRAND_COLORS) :
                      \/ includes(lower, BRAND_COLORS[i].brand)
                      \/ includes(BRAND_COLORS[i].brand, lower)}
        Min(S) == CHOOSE i \in S : \A j \in S : i <= j
    IN  IF exact # {} THEN BRAND_COLORS[Min(exact)].color
        ELSE IF lower = S_constructor THEN ObjectFunction
        ELSE IF lower = S_proto THEN ObjectPrototype
        ELSE IF partial # {} THEN BRAND_COLORS[Min(partial)].color
        ELSE NoColor

\* ToInt32 and (x << 5) on 32-bit two's complement integers.
Pow26 == 67108864
Pow27 == 134217728
Pow30 == 1073741824

Shl5(x) ==
    LET low == x % Pow27
    IN  IF low >= Pow26 THEN ((low - Pow26) * 32 - Pow30) - Pow30 ELSE low * 32

Abs(x) == IF x < 0 THEN 0 - x ELSE x

RECURSIVE HashFrom(_, _, _)
HashFrom(name, i, hash) ==
    IF i > Len(name) THEN hash
    ELSE HashFrom(name, i + 1, name[i] + (Shl5(hash) - hash))

generateColorFromName(name) ==
    DEFAULT_COLORS[(Abs(HashFrom(name, 1, 0)) % Len(DEFAULT_COLORS)) + 1]

\* name.toLowerCase().replace(/[\s'-]+/g, '')
normalizeDomain(name) == DropChars(toLowerCase(name), Whitespace \cup {Apostrophe, Hyphen})

\* The candidate domains tryFetchLogo probes, in order.
DOMAINS == << ".com", ".nl", ".de", ".co.uk" >>

NoLogo == <<>>
clearbitUrl(name, k) == << "https://logo.clearbit.com/", normalizeDomain(name), DOMAINS[k] >>
faviconUrl(name) ==
    << "https://www.google.com/s2/favicons?domain=", normalizeDomain(name), ".com&sz=128" >>

\* The color fetchBrandAssets computes before it awaits the logo.
brandColorOf(storeName) ==
    LET knownColor == getKnownColor(storeName)
    IN  IF knownColor # NoColor THEN knownColor ELSE generateColorFromName(storeName)

(***************************************************************************)
(* storage.ts: the storage slot and the pure parts of the operations.      *)
(***************************************************************************)
\* localStorage.getItem(STORAGE_KEY): no item, or a text.  A text is
\* modelled by what JSON.parse makes of it: an array (with its elements),
\* a value that is no array, or a SyntaxError.
NoItem == [kind |-> "absent"]
ObjectText == [kind |-> "object"]
GarbageText == [kind |-> "garbage"]

\* JSON.stringify of an array of records whose fields are strings, numbers,
\* booleans or null; JSON.parse gives the same elements back.  A property
\* whose value is a function is left out, and Object.prototype is written as
\* an empty object.
EmptyObject == "{}"

Serialized(item) ==
    IF "brandColor" \in DOMAIN item /\ item.brandColor = ObjectFunction
    THEN [f \in DOMAIN item \ {"brandColor"} |-> item[f]]
    ELSE IF "brandColor" \in DOMAIN item /\ item.brandColor = ObjectPrototype
    THEN [item EXCEPT !.brandColor = EmptyObject]
    ELSE item

JSONstringify(items) ==
    [kind |-> "array", items |-> [i \in 1..Len(items) |-> Serialized(items[i])]]

JSONparseThrows(text) == text.kind = "garbage"
IsArray(text) == text.kind = "array"

\* lastUsedAt: null is modelled as 0.  The code only tests lastUsedAt for
\* truthiness, and Date.now() is never 0.
NoTime == 0

NoId == <<>>
NoCard == [id |-> NoId]

\* `${Date.now()}_${Math.random().toString(36).substring(2, 11)}`
generateId(t, rnd) == <<t, rnd>>

AllIds == (1..MaxTime) \X (1..NumRnd)

\* A comparator that leaves out the favorite tier: what compareCards must
\* differ from for the listed order to put favorites first.
compareCards_noFavoriteTier(a, b) ==
    IF a.lastUsedAt # NoTime /\ b.lastUsedAt # NoTime
    THEN b.lastUsedAt - a.lastUsedAt
    ELSE IF a.lastUsedAt # NoTime THEN 0 - 1
    ELSE IF b.lastUsedAt # NoTime THEN 1
    ELSE b.createdAt - a.createdAt

\* The comparator of getAllCards: negative when a sorts before b.
compareCards(a, b) ==
    IF a.isFavorite /\ ~b.isFavorite THEN 0 - 1
    ELSE IF ~a.isFavorite /\ b.isFavorite THEN 1
    ELSE IF a.lastUsedAt # NoTime /\ b.lastUsedAt # NoTime
         THEN b.lastUsedAt - a.lastUsedAt
    ELSE IF a.lastUsedAt # NoTime THEN 0 - 1
    ELSE IF b.lastUsedAt # NoTime THEN 1
    ELSE b.createdAt - a.createdAt

\* Array.prototype.sort is stable: an element goes behind every element
\* already placed that does not sort after it.
RECURSIVE InsertCard(_, _)
InsertCard(sorted, c) ==
    IF sorted = <<>> THEN <<c>>
    ELSE IF compareCards(c, Head(sorted)) < 0 THEN <<c>> \o sorted
         ELSE <<Head(sorted)>> \o InsertCard(Tail(sorted), c)

RECURSIVE SortCards(_)
SortCards(cards) ==
    IF cards = <<>> THEN <<>>
    ELSE InsertCard(SortCards(SubSeq(cards, 1, Len(cards) - 1)), cards[Len(cards)])

\* localStorage.getItem itself throws (storage disabled, access denied).
Unreadable == [kind |-> "unreadable"]

\* The try block of getAllCards (lines 40-53) throws: getItem throws,
\* JSON.parse throws, or the parsed value has no sort method.
tryThrows(s) == s.kind \in {"unreadable", "garbage", "object"}

\* A getAllCards without its catch: what the try block throws escapes.
getAllCardsThrows_noCatch(s) == tryThrows(s)

\* catch { return []; } (lines 54-56): nothing escapes getAllCards.
getAllCardsThrows(s) == FALSE

\* getAllCards: [] for no item, for text that does not parse and for a
\* parsed value without a sort method (the catch); else the sorted array.
getAllCards(s) ==
    IF s.kind = "array" THEN SortCards(s.items) ELSE <<>>

\* cards.findIndex(c => c.id === id); 0 stands for -1.
findIndex(cards, id) ==
    IF \E i \in 1..Len(cards) : cards[i].id = id
    THEN CHOOSE i \in 1..Len(cards) :
            /\ cards[i].id = id
            /\ \A j \in 1..(i - 1) : cards[j].id # id
    ELSE 0

\* getCardById: cards.find(c => c.id === id); NoCard stands for undefined.
getCardById(s, id) ==
    LET cards == getAllCards(s)
        i == findIndex(cards, id)
    IN  IF i = 0 THEN NoCard ELSE cards[i]

\* A merge that classifies the card number again when it is supplied.
mergeCard_rederive(card, updates) ==
    [f \in DOMAIN card \cup DOMAIN updates |->
        IF f = "barcodeFormat" /\ "cardNumber" \in DOMAIN updates
        THEN detectBarcodeFormat(updates.cardNumber.s)
        ELSE IF f \in DOMAIN updates THEN updates[f] ELSE card[f]]

\* { ...cards[index], ...updates }
mergeCard(card, updates) ==
    [f \in DOMAIN card \cup DOMAIN updates |->
        IF f \in DOMAIN updates THEN updates[f] ELSE card[f]]

\* updateCard: the array it saves (on a present id).
updatedCards(s, id, updates) ==
    LET cards == getAllCards(s)
        index == findIndex(cards, id)
    IN  [cards EXCEPT ![index] = mergeCard(cards[index], updates)]

\* A filter that also drops the record behind a dropped one: a deletion
\* with collateral damage.
RECURSIVE filterOut_collateral(_, _)
filterOut_collateral(cards, id) ==
    IF cards = <<>> THEN <<>>
    ELSE IF Head(cards).id = id
         THEN filterOut_collateral(IF Len(cards) > 1 THEN Tail(Tail(cards)) ELSE <<>>, id)
         ELSE <<Head(cards)>> \o filterOut_collateral(Tail(cards), id)

\* deleteCard: cards.filter(c => c.id !== id)
RECURSIVE filterOut(_, _)
filterOut(cards, id) ==
    IF cards = <<>> THEN <<>>
    ELSE IF Head(cards).id = id THEN filterOut(Tail(cards), id)
         ELSE <<Head(cards)>> \o filterOut(Tail(cards), id)

\* toggleFavorite: the array it saves (on a present id).
toggledCards(s, id) ==
    LET cards == getAllCards(s)
        i == findIndex(cards, id)
    IN  [cards EXCEPT ![i].isFavorite = ~cards[i].isFavorite]

\* A markAsUsed that stamps every card of the collection.
usedCards_touchAll(s, id, t) ==
    LET cards == getAllCards(s)
    IN  [i \in 1..Len(cards) |-> [cards[i] EXCEPT !.lastUsedAt = t]]

\* markAsUsed: the array it saves (on a present id).
usedCards(s, id, t) ==
    LET cards == getAllCards(s)
        i == findIndex(cards, id)
    IN  [cards EXCEPT ![i].lastUsedAt = t]

\* An export that maps the stored array instead of the listed one.
exportData_storedOrder(s) ==
    LET cards == IF s.kind = "array" THEN s.items ELSE <<>>
    IN  [i \in 1..Len(cards) |->
            JObj([storeName |-> cards[i].storeName,
                  cardNumber |-> cards[i].cardNumber,
                  barcodeFormat |-> cards[i].barcodeFormat,
                  isFavorite |-> cards[i].isFavorite])]

\* exportCards: the four exported fields of each card, in listed order.
exportData(s) ==
    LET cards == getAllCards(s)
    IN  [i \in 1..Len(cards) |->
            JObj([storeName |-> cards[i].storeName,
                  cardNumber |-> cards[i].cardNumber,
                  barcodeFormat |-> cards[i].barcodeFormat,
                  isFavorite |-> cards[i].isFavorite])]

exportCards(s) == JSONstringify(exportData(s))

\* A record whose format is always classified from the card number, also
\* when the input supplies one.
newCardOf_inferred(id, input, logoUrl, brandColor, t) ==
    [id |-> id,
     storeName |-> input.storeName,
     cardNumber |-> input.cardNumber,
     logoUrl |-> logoUrl,
     brandColor |-> brandColor,
     barcodeFormat |-> detectBarcodeFormat(input.cardNumber.s),
     isFavorite |-> FALSE,
     createdAt |-> t,
     lastUsedAt |-> NoTime]

\* A record that is born used: lastUsedAt set to the creation time.
newCardOf_used(id, input, logoUrl, brandColor, t) ==
    [id |-> id,
     storeName |-> input.storeName,
     cardNumber |-> input.cardNumber,
     logoUrl |-> logoUrl,
     brandColor |-> brandColor,
     barcodeFormat |-> IF input.barcodeFormat # "" THEN input.barcodeFormat
                       ELSE detectBarcodeFormat(input.cardNumber.s),
     isFavorite |-> FALSE,
     createdAt |-> t,
     lastUsedAt |-> t]

\* createCard, lines 73-85: the record built once the assets are there.
\* input.barcodeFormat is "" when the caller supplies none.
newCardOf(id, input, logoUrl, brandColor, t) ==
    [id |-> id,
     storeName |-> input.storeName,
     cardNumber |-> input.cardNumber,
     logoUrl |-> logoUrl,
     brandColor |-> brandColor,
     barcodeFormat |-> IF input.barcodeFormat # "" THEN input.barcodeFormat
                       ELSE detectBarcodeFormat(input.cardNumber.s),
     isFavorite |-> FALSE,
     createdAt |-> t,
     lastUsedAt |-> NoTime]

\* A write built without the collection read at write time: the new record
\* replaces whatever the slot holds.
cardsAfterCreate_noRead(s, newCard) == <<newCard>>

\* createCard, lines 87-88: saveAllCards([newCard, ...getAllCards()]).
cardsAfterCreate(s, newCard) == <<newCard>> \o getAllCards(s)

\* detectBarcodeFormat(input.cardNumber) is reached and cardNumber has no
\* replace method: a TypeError.
detectThrows(input) == input.barcodeFormat = "" /\ ~IsStr(input.cardNumber)

\* fetchBrandAssets(storeName) calls storeName.toLowerCase(): a TypeError
\* unless storeName is a string.
assetsThrow(input) == ~IsStr(input.storeName)

(***************************************************************************)
(* Inputs.                                                                 *)
(***************************************************************************)
S_IKEA == <<73, 75, 69, 65>>                      \* "IKEA"
S_ab == <<97, 98>>                                \* "ab"
S_12345678 == <<49, 50, 51, 52, 53, 54, 55, 56>>  \* "12345678"
S_A1 == <<65, 45, 49>>                            \* "A-1"

Input(name, number, format) ==
    [storeName |-> name, cardNumber |-> number, barcodeFormat |-> format]

\* What the add-card view passes to createCard.
IkeaInput == Input(JStr(S_IKEA), JStr(S_12345678), "")
AbInput == Input(JStr(S_ab), JStr(S_A1), "QR")
CardInputs == {IkeaInput, AbInput}

\* Elements of import documents.
E_ikea == JObj([storeName |-> JStr(S_IKEA), cardNumber |-> JStr(S_12345678)])
E_ab == JObj([storeName |-> JStr(S_ab), cardNumber |-> JStr(S_A1),
              barcodeFormat |-> "QR", isFavorite |-> TRUE])
E_noNumber == JObj([storeName |-> JStr(S_ab)])
E_emptyName == JObj([storeName |-> JStr(<<>>), cardNumber |-> JStr(S_A1)])
E_empty == JObj(<<>>)
E_numName == JObj([storeName |-> JNum(7), cardNumber |-> JStr(S_A1)])
E_numNumber == JObj([storeName |-> JStr(S_ab), cardNumber |-> JNum(7)])

\* Texts handed to importCards, besides an exported backup.
ImportDocs ==
    { GarbageText, ObjectText,
      JSONstringify(<<>>),
      JSONstringify(<<E_ikea, E_noNumber>>),
      JSONstringify(<<E_ikea, E_ab>>),
      JSONstringify(<<E_emptyName, E_ab>>),
      JSONstringify(<<JNum(7), JStr(S_ab), E_empty, E_ab>>),
      JSONstringify(<<E_ab, JNull>>),
      JSONstringify(<<JNull, E_ab>>),
      JSONstringify(<<E_numName>>),
      JSONstringify(<<E_numNumber>>) }

\* A fetch(url, {method: 'HEAD'}) answers ok, answers not ok, or rejects.
ProbeOutcomes == {"ok", "notok", "reject"}

(***************************************************************************)
(* Asynchronous calls: createCard and importCards.                         *)
(*   pc = "probe": awaiting the fetch of candidate domain k                *)
(*   pc = "write": the logo is resolved, createCard's continuation         *)
(*                 (lines 73-89) has not run yet                           *)
(*   pc = "done" / "error": the promise is fulfilled / rejected            *)
(***************************************************************************)
NoInput == [storeName |-> Undef, cardNumber |-> Undef, barcodeFormat |-> ""]

\* writes counts the call's successful saveAllCards; overlapped says that
\* another call was awaiting its logo when this one was issued.
IdleCall ==
    [kind |-> "idle", pc |-> "idle", text |-> NoItem, idx |-> 0, imported |-> 0,
     input |-> NoInput, id |-> NoId, brandColor |-> NoColor, k |-> 0,
     logoUrl |-> NoLogo, writes |-> 0, overlapped |-> FALSE]

Calls == 1..MaxCalls

\* A createCard that does not wait for the logo lookup: it is ready to
\* write as soon as it is called.
createStarted_noAwait(call, input, t, rnd) ==
    [call EXCEPT !.pc = "write", !.input = input, !.id = generateId(t, rnd),
                 !.k = 1, !.logoUrl = NoLogo]

\* The synchronous start of createCard(input): generateId, then
\* fetchBrandAssets up to the first await fetch.
createStarted(call, input, t, rnd) ==
    IF assetsThrow(input)
    THEN [call EXCEPT !.pc = "error", !.input = input, !.id = generateId(t, rnd)]
    ELSE [call EXCEPT !.pc = "probe", !.input = input, !.id = generateId(t, rnd),
                      !.brandColor = brandColorOf(input.storeName.s),
                      !.k = 1, !.logoUrl = NoLogo]

formatOf(item) ==
    IF item.t = "object" /\ "barcodeFormat" \in DOMAIN item.f
    THEN item.f.barcodeFormat ELSE ""

\* A test that takes an element with either field.
itemAccepted_either(item) ==
    Truthy(Prop(item, "storeName")) \/ Truthy(Prop(item, "cardNumber"))

\* if (item.storeName && item.cardNumber)
itemAccepted(item) ==
    Truthy(Prop(item, "storeName")) /\ Truthy(Prop(item, "cardNumber"))

\* The for loop of importCards from element i on, up to its next await:
\* skipped elements are passed over; a null element throws; an accepted
\* element starts createCard; past the last element the count is returned.
RECURSIVE importLoop(_, _, _, _)
importLoop(call, i, t, rnd) ==
    IF i > Len(call.text.items) THEN [call EXCEPT !.pc = "done", !.idx = i]
    ELSE IF PropThrows(call.text.items[i]) THEN [call EXCEPT !.pc = "error", !.idx = i]
    ELSE IF itemAccepted(call.text.items[i])
         THEN createStarted([call EXCEPT !.idx = i],
                            Input(Prop(call.text.items[i], "storeName"),
                                  Prop(call.text.items[i], "cardNumber"),
                                  formatOf(call.text.items[i])),
                            t, rnd)
    ELSE importLoop(call, i + 1, t, rnd)

\* An importCards without the Array.isArray test: a parsed value that is no
\* array is taken for an empty one.
importStarted_noArrayTest(call, t, rnd) ==
    IF JSONparseThrows(call.text) THEN [call EXCEPT !.pc = "error"]
    ELSE IF ~IsArray(call.text) THEN [call EXCEPT !.pc = "done"]
    ELSE importLoop(call, 1, t, rnd)

\* importCards(jsonString) up to its first await.
importStarted(call, t, rnd) ==
    IF JSONparseThrows(call.text) \/ ~IsArray(call.text)
    THEN [call EXCEPT !.pc = "error"]
    ELSE importLoop(call, 1, t, rnd)

\* tryFetchLogo after the answer to probe k.
probeAnswered(call, outcome) ==
    IF outcome = "ok"
    THEN [call EXCEPT !.pc = "write",
                      !.logoUrl = clearbitUrl(call.input.storeName.s, call.k)]
    ELSE IF call.k < Len(DOMAINS)
         THEN [call EXCEPT !.k = call.k + 1]
         ELSE [call EXCEPT !.pc = "write",
                           !.logoUrl = faviconUrl(call.input.storeName.s)]

(***************************************************************************)
(* The state machine.                                                      *)
(*   slot   the content of localStorage['LOCAL_WALLET_CARDS']              *)
(*   now    Date.now()                                                     *)
(*   drawn  the values Math.random has returned to generateId during the   *)
(*          current millisecond                                            *)
(*   calls  the createCard / importCards calls issued so far               *)
(*   last   the operation that completed last, with what it returned       *)
(*   script the position of a caller that runs a fixed sequence of calls   *)
(***************************************************************************)
\* A setItem that loses the old text when it fails.
saveAllCards_lossy(s, cards, stored) == IF stored THEN JSONstringify(cards) ELSE NoItem

\* saveAllCards: localStorage.setItem stores the text, or throws (quota
\* exceeded, storage disabled) and stores nothing.
saveAllCards(s, cards, stored) == IF stored THEN JSONstringify(cards) ELSE s

NoScript == [pc |-> "none"]

Init ==
    /\ slot = NoItem
    /\ now = 1
    /\ drawn = {}
    /\ calls = [c \in Calls |-> IdleCall]
    /\ last = [op |-> "none"]
    /\ script = NoScript

\* Calls are numbered in the order they are issued.
NextIdle(c) ==
    /\ calls[c].kind = "idle"
    /\ \A d \in 1..(c - 1) : calls[d].kind # "idle"

AnyInFlight == \E d \in Calls : calls[d].pc \in {"probe", "write"}

\* A settled call keeps what its promise carries (for createCard the id of
\* the card it returned stands for the card); its locals are gone.
settle(call) ==
    IF call.pc \in {"done", "error"}
    THEN [call EXCEPT !.input = NoInput, !.brandColor = NoColor, !.k = 0,
                      !.logoUrl = NoLogo,
                      !.id = IF call.kind = "create" /\ call.pc = "done"
                             THEN call.id ELSE NoId,
                      !.idx = IF call.pc = "error" THEN call.idx ELSE 0]
    ELSE call

\* What a settled importCards call leaves in last.
settled(c, call) ==
    [op |-> "importCards", call |-> c, threw |-> call.pc = "error", card |-> NoCard]

\* What a createCard call that returned or threw leaves in last.
created(c, threw, card) ==
    [op |-> "createCard", call |-> c, threw |-> threw,
     card |-> IF threw THEN NoCard ELSE card]

Tick ==
    /\ now < MaxTime
    /\ now' = now + 1
    /\ drawn' = {}
    /\ UNCHANGED <<slot, calls, last>>

\* generateId's draw: Math.random is taken not to return the same nine
\* characters twice within one millisecond, so that generateId gives an id
\* no earlier call was given.
Fresh(rnd) == rnd \notin drawn

\* createCard(input) is called: it runs up to its await.
CreateCardCall(c, input, rnd) ==
    /\ NextIdle(c)
    /\ Fresh(rnd)
    /\ drawn' = drawn \cup {rnd}
    /\ calls' = [calls EXCEPT ![c] =
                    createStarted([IdleCall EXCEPT !.kind = "create",
                                                   !.overlapped = AnyInFlight],
                                  input, now, rnd)]
    /\ UNCHANGED <<slot, now, last>>

\* importCards(text) is called: it runs up to its first await, or settles.
ImportCardsCall(c, text, rnd) ==
    LET call == importStarted([IdleCall EXCEPT !.kind = "import", !.text = text,
                                               !.overlapped = AnyInFlight],
                              now, rnd)
    IN  /\ NextIdle(c)
        /\ call.id # NoId => Fresh(rnd)
        /\ drawn' = IF call.id # NoId THEN drawn \cup {rnd} ELSE drawn
        /\ calls' = [calls EXCEPT ![c] = settle(call)]
        /\ last' = IF call.pc \in {"done", "error"} THEN settled(c, call) ELSE last
        /\ UNCHANGED <<slot, now>>

\* The fetch of the candidate domain a call awaits is answered.
ProbeRespond(c, outcome) ==
    /\ calls[c].pc = "probe"
    /\ calls' = [calls EXCEPT ![c] = probeAnswered(calls[c], outcome)]
    /\ UNCHANGED <<slot, now, drawn, last>>

\* createCard resumes after its await (lines 73-89): it builds the record,
\* reads the collection and saves it, all in one synchronous run.  In an
\* importCards call the loop then goes on up to its next await.
CreateContinue(c, stored, rnd) ==
    LET call == calls[c]
        threw == detectThrows(call.input) \/ ~stored
        newCard == newCardOf(call.id, call.input, call.logoUrl, call.brandColor, now)
        written == [call EXCEPT !.writes = call.writes + 1, !.id = NoId]
        after == IF threw THEN [call EXCEPT !.pc = "error"]
                 ELSE IF call.kind = "create"
                      THEN [call EXCEPT !.writes = call.writes + 1, !.pc = "done"]
                 ELSE importLoop([written EXCEPT !.imported = call.imported + 1],
                                 call.idx + 1, now, rnd)
        drew == ~threw /\ call.kind = "import" /\ after.id # NoId
    IN  /\ call.pc = "write"
        /\ drew => Fresh(rnd)
        /\ drawn' = IF drew THEN drawn \cup {rnd} ELSE drawn
        /\ slot' = IF detectThrows(call.input) THEN slot
                   ELSE saveAllCards(slot, cardsAfterCreate(slot, newCard), stored)
        /\ calls' = [calls EXCEPT ![c] = settle(after)]
        /\ last' = IF call.kind = "import" /\ after.pc \in {"done", "error"}
                   THEN settled(c, after)
                   ELSE created(c, threw, newCard)
        /\ UNCHANGED now

\* The ids a caller has in hand: those of the cards the collection holds and
\* those of the cards createCard returned.
KnownIds ==
    {slot.items[i].id : i \in 1..(IF slot.kind = "array" THEN Len(slot.items) ELSE 0)}
    \cup {calls[c].id : c \in {d \in Calls : calls[d].kind = "create" /\ calls[d].pc = "done"}}

\* The partial records handed to updateCard (updates: Partial<Card>).
Updates ==
    { [storeName |-> JStr(S_ab), cardNumber |-> JStr(S_12345678)] }
    \cup { [id |-> x] : x \in KnownIds }

\* A getAllCards that saves the sorted array it returns.
GetAllCards_saving ==
    /\ last' = [op |-> "getAllCards", threw |-> getAllCardsThrows(slot)]
    /\ slot' = JSONstringify(getAllCards(slot))
    /\ UNCHANGED <<now, drawn, calls>>

GetAllCards ==
    /\ last' = [op |-> "getAllCards", threw |-> getAllCardsThrows(slot)]
    /\ UNCHANGED <<slot, now, drawn, calls>>

GetCardById(id) ==
    /\ last' = [op |-> "getCardById", id |-> id]
    /\ UNCHANGED <<slot, now, drawn, calls>>

UpdateCard(id, updates, stored) ==
    LET index == findIndex(getAllCards(slot), id)
        cards == updatedCards(slot, id, updates)
    IN  /\ slot' = IF index # 0 THEN saveAllCards(slot, cards, stored) ELSE slot
        /\ last' = [op |-> "updateCard", id |-> id, updates |-> updates,
                    threw |-> index # 0 /\ ~stored,
                    card |-> IF index # 0 /\ stored THEN cards[index] ELSE NoCard]
        /\ UNCHANGED <<now, drawn, calls>>

DeleteCard(id, stored) ==
    LET cards == getAllCards(slot)
        filtered == filterOut(cards, id)
        found == Len(filtered) # Len(cards)
    IN  /\ slot' = IF found THEN saveAllCards(slot, filtered, stored) ELSE slot
        /\ last' = [op |-> "deleteCard", id |-> id, threw |-> found /\ ~stored,
                    result |-> found /\ stored]
        /\ UNCHANGED <<now, drawn, calls>>

ToggleFavorite(id, stored) ==
    LET index == findIndex(getAllCards(slot), id)
        cards == toggledCards(slot, id)
    IN  /\ slot' = IF index # 0 THEN saveAllCards(slot, cards, stored) ELSE slot
        /\ last' = [op |-> "toggleFavorite", id |-> id, threw |-> index # 0 /\ ~stored,
                    result |-> index # 0 /\ stored /\ cards[index].isFavorite]
        /\ UNCHANGED <<now, drawn, calls>>

MarkAsUsed(id, stored) ==
    LET found == findIndex(getAllCards(slot), id) # 0
    IN  /\ slot' = IF found THEN saveAllCards(slot, usedCards(slot, id, now), stored)
                   ELSE slot
        /\ last' = [op |-> "markAsUsed", id |-> id, threw |-> found /\ ~stored]
        /\ UNCHANGED <<now, drawn, calls>>

ExportCards ==
    /\ last' = [op |-> "exportCards", text |-> exportCards(slot)]
    /\ UNCHANGED <<slot, now, drawn, calls>>

\* A wipe that removes the item of another key: the cards stay.
HandleDeleteAll_otherKey ==
    /\ last' = [op |-> "handleDeleteAll"]
    /\ UNCHANGED <<slot, now, drawn, calls>>

\* Settings.handleDeleteAll: localStorage.removeItem('LOCAL_WALLET_CARDS').
HandleDeleteAll ==
    /\ slot' = NoItem
    /\ last' = [op |-> "handleDeleteAll"]
    /\ UNCHANGED <<now, drawn, calls>>

(***************************************************************************)
(* Specifications.                                                         *)
(***************************************************************************)
\* The views call the store while the logo service answers every probe ok
\* (each createCard has one suspension, then its write).
Next ==
    \/ Tick /\ UNCHANGED script
    \/ \E c \in Calls, input \in {IkeaInput}, rnd \in 1..NumRnd :
          CreateCardCall(c, input, rnd) /\ UNCHANGED script
    \/ \E c \in Calls : ProbeRespond(c, "ok") /\ UNCHANGED script
    \/ \E c \in Calls, stored \in BOOLEAN, rnd \in 1..NumRnd :
          CreateContinue(c, stored, rnd) /\ UNCHANGED script
    \/ GetAllCards /\ UNCHANGED script
    \/ \E id \in AllIds : GetCardById(id) /\ UNCHANGED script
    \/ \E id \in AllIds, updates \in Updates, stored \in BOOLEAN :
          UpdateCard(id, updates, stored) /\ UNCHANGED script
    \/ \E id \in AllIds, stored \in BOOLEAN : DeleteCard(id, stored) /\ UNCHANGED script
    \/ \E id \in AllIds, stored \in BOOLEAN : ToggleFavorite(id, stored) /\ UNCHANGED script
    \/ \E id \in AllIds, stored \in BOOLEAN : MarkAsUsed(id, stored) /\ UNCHANGED script
    \/ ExportCards /\ UNCHANGED script
    \/ HandleDeleteAll /\ UNCHANGED script

Spec == Init /\ [][Next]_vars

\* createCard calls alone, under every answer of the logo service and with
\* writes that may fail.
NextCreate ==
    \/ Tick /\ UNCHANGED script
    \/ \E c \in Calls, input \in CardInputs, rnd \in 1..NumRnd :
          CreateCardCall(c, input, rnd) /\ UNCHANGED script
    \/ \E c \in Calls, outcome \in ProbeOutcomes :
          ProbeRespond(c, outcome) /\ UNCHANGED script
    \/ \E c \in Calls, stored \in BOOLEAN, rnd \in 1..NumRnd :
          CreateContinue(c, stored, rnd) /\ UNCHANGED script
    \/ GetAllCards /\ UNCHANGED script
    \/ \E id \in AllIds : GetCardById(id) /\ UNCHANGED script

SpecCreate == Init /\ [][NextCreate]_vars

\* importCards calls, with deletions and wipes in between.
NextImport ==
    \/ Tick /\ UNCHANGED script
    \/ \E c \in Calls, text \in ImportDocs, rnd \in 1..NumRnd :
          ImportCardsCall(c, text, rnd) /\ UNCHANGED script
    \/ \E c \in Calls : ProbeRespond(c, "ok") /\ UNCHANGED script
    \/ \E c \in Calls, stored \in BOOLEAN, rnd \in 1..NumRnd :
          CreateContinue(c, stored, rnd) /\ UNCHANGED script
    \/ \E id \in AllIds, stored \in BOOLEAN : DeleteCard(id, stored) /\ UNCHANGED script
    \/ HandleDeleteAll /\ UNCHANGED script

SpecImport == Init /\ [][NextImport]_vars

\* A caller that builds a collection, then runs exportCards, the wipe and
\* importCards of the exported text, with nothing else in between.
\*   script.pc: "none" (building), "exported", "wiped", "importing", "imported"
NextRoundTrip ==
    \/ Tick /\ UNCHANGED script
    \/ /\ script.pc = "none"
       /\ \E c \in Calls, input \in CardInputs, rnd \in 1..NumRnd :
             CreateCardCall(c, input, rnd)
       /\ UNCHANGED script
    \/ \E c \in Calls : ProbeRespond(c, "ok") /\ UNCHANGED script
    \/ \E c \in Calls, rnd \in 1..NumRnd :
          /\ CreateContinue(c, TRUE, rnd)
          /\ script' = IF script.pc = "importing" /\ calls'[c].pc \in {"done", "error"}
                       THEN [script EXCEPT !.pc = "imported"] ELSE script
    \/ script.pc = "none" /\ (\E id \in AllIds : ToggleFavorite(id, TRUE)) /\ UNCHANGED script
    \/ script.pc = "none" /\ (\E id \in AllIds : MarkAsUsed(id, TRUE)) /\ UNCHANGED script
    \/ /\ script.pc = "none"
       /\ ~AnyInFlight
       /\ ExportCards
       /\ script' = [pc |-> "exported", text |-> exportCards(slot), before |-> slot]
    \/ /\ script.pc = "exported"
       /\ HandleDeleteAll
       /\ script' = [script EXCEPT !.pc = "wiped"]
    \/ /\ script.pc = "wiped"
       /\ \E c \in Calls, rnd \in 1..NumRnd :
             /\ ImportCardsCall(c, script.text, rnd)
             /\ script' = [script EXCEPT !.pc = IF calls'[c].pc \in {"done", "error"}
                                                THEN "imported" ELSE "importing"]

SpecRoundTrip == Init /\ [][NextRoundTrip]_vars


\* getAllCards as a function of what the slot holds: the slot starts with
\* any array of at most MaxCards well-formed records, in any stored order,
\* and the view lists it.
MaxCards == 3

SampleCards ==
    { [newCardOf(NoId, IkeaInput, faviconUrl(S_IKEA), brandColorOf(S_IKEA), at)
          EXCEPT !.isFavorite = fav, !.lastUsedAt = used] :
        at \in 1..MaxTime, fav \in BOOLEAN, used \in {NoTime} \cup (1..MaxTime) }

WithIds(cards) ==
    [i \in 1..Len(cards) |-> [cards[i] EXCEPT !.id = generateId(cards[i].createdAt, i)]]

InitList ==
    /\ \E n \in 0..MaxCards : \E cards \in [1..n -> SampleCards] :
          slot = JSONstringify(WithIds(cards))
    /\ now = MaxTime
    /\ drawn = {}
    /\ calls = [c \in Calls |-> IdleCall]
    /\ last = [op |-> "none"]
    /\ script = NoScript

NextList == GetAllCards /\ UNCHANGED script

SpecList == InitList /\ [][NextList]_vars

\* The store on a slot that starts absent, unreadable, with text that does
\* not parse, with a parsed value that is no array, or with an empty array.
SlotContents == {NoItem, Unreadable, GarbageText, ObjectText, JSONstringify(<<>>)}

InitSlot ==
    /\ slot \in SlotContents
    /\ now = 1
    /\ drawn = {}
    /\ calls = [c \in Calls |-> IdleCall]
    /\ last = [op |-> "none"]
    /\ script = NoScript

NextSlot ==
    \/ Tick /\ UNCHANGED script
    \/ \E c \in Calls, rnd \in 1..NumRnd :
          CreateCardCall(c, IkeaInput, rnd) /\ UNCHANGED script
    \/ \E c \in Calls : ProbeRespond(c, "ok") /\ UNCHANGED script
    \/ \E c \in Calls, stored \in BOOLEAN, rnd \in 1..NumRnd :
          CreateContinue(c, stored, rnd) /\ UNCHANGED script
    \/ GetAllCards /\ UNCHANGED script
    \/ \E id \in AllIds : GetCardById(id) /\ UNCHANGED script
    \/ \E id \in AllIds : ToggleFavorite(id, TRUE) /\ UNCHANGED script

SpecSlot == InitSlot /\ [][NextSlot]_vars

\* createCard calls under the scheduling the event loop gives: a call whose
\* lookup has resolved does run its continuation.  Nothing makes a pending
\* fetch settle: tryFetchLogo passes no timeout and no abort signal.
SpecLive ==
    /\ Init
    /\ [][NextCreate]_vars
    /\ WF_vars(\E c \in Calls, stored \in BOOLEAN, rnd \in 1..NumRnd :
                  CreateContinue(c, stored, rnd) /\ UNCHANGED script)

\* updateCard with the partial records a caller may pass (Partial<Card>):
\* a new name and number, a format, a creation time.
FieldUpdates ==
    { [storeName |-> JStr(S_ab), cardNumber |-> JStr(S_A1)],
      [barcodeFormat |-> "QR"] }
    \cup { [createdAt |-> t] : t \in 1..MaxTime }

NextUpdate ==
    \/ Tick /\ UNCHANGED script
    \/ \E c \in Calls, rnd \in 1..NumRnd :
          CreateCardCall(c, IkeaInput, rnd) /\ UNCHANGED script
    \/ \E c \in Calls : ProbeRespond(c, "ok") /\ UNCHANGED script
    \/ \E c \in Calls, rnd \in 1..NumRnd :
          CreateContinue(c, TRUE, rnd) /\ UNCHANGED script
    \/ \E id \in AllIds, updates \in FieldUpdates, stored \in BOOLEAN :
          UpdateCard(id, updates, stored) /\ UNCHANGED script
    \/ \E id \in AllIds : DeleteCard(id, TRUE) /\ UNCHANGED script

SpecUpdate == Init /\ [][NextUpdate]_vars

\* A caller that builds a collection, then calls toggleFavorite(id) twice in
\* a row on a present id.
\*   script.pc: "none" (building), "once", "twice"
NextToggle ==
    \/ script.pc = "none" /\ Tick /\ UNCHANGED script
    \/ /\ script.pc = "none"
       /\ \E c \in Calls, rnd \in 1..NumRnd : CreateCardCall(c, IkeaInput, rnd)
       /\ UNCHANGED script
    \/ /\ script.pc = "none"
       /\ \E c \in Calls : ProbeRespond(c, "ok")
       /\ UNCHANGED script
    \/ /\ script.pc = "none"
       /\ \E c \in Calls, rnd \in 1..NumRnd : CreateContinue(c, TRUE, rnd)
       /\ UNCHANGED script
    \/ /\ script.pc = "none"
       /\ \E id \in AllIds, updates \in Updates : UpdateCard(id, updates, TRUE)
       /\ UNCHANGED script
    \/ /\ script.pc = "none"
       /\ \E id \in AllIds : ToggleFavorite(id, TRUE)
       /\ UNCHANGED script
    \/ /\ script.pc = "none"
       /\ \E id \in AllIds :
             /\ findIndex(getAllCards(slot), id) # 0
             /\ ToggleFavorite(id, TRUE)
             /\ script' = [pc |-> "once", id |-> id, before |-> slot]
    \/ /\ script.pc = "once"
       /\ ToggleFavorite(script.id, TRUE)
       /\ script' = [script EXCEPT !.pc = "twice"]

SpecToggle == Init /\ [][NextToggle]_vars

\* createCard and importCards with and without a barcodeFormat, and with a
\* barcodeFormat that is no BarcodeFormat (an imported document is not
\* type-checked).
E_pdf == JObj([storeName |-> JStr(S_ab), cardNumber |-> JStr(S_A1),
               barcodeFormat |-> "PDF417"])

FormatDocs == {JSONstringify(<<E_pdf>>), JSONstringify(<<E_ikea, E_ab>>)}

NextFormat ==
    \/ Tick /\ UNCHANGED script
    \/ \E c \in Calls, input \in CardInputs, rnd \in 1..NumRnd :
          CreateCardCall(c, input, rnd) /\ UNCHANGED script
    \/ \E c \in Calls, text \in FormatDocs, rnd \in 1..NumRnd :
          ImportCardsCall(c, text, rnd) /\ UNCHANGED script
    \/ \E c \in Calls : ProbeRespond(c, "ok") /\ UNCHANGED script
    \/ \E c \in Calls, rnd \in 1..NumRnd :
          CreateContinue(c, TRUE, rnd) /\ UNCHANGED script

SpecFormat == Init /\ [][NextFormat]_vars

\* detectBarcodeFormat applied to card numbers: a run of 0..MaxDigits digits
\* between two affixes (nothing, a lower or upper case letter, a hyphen, a
\* space, "$", "#", dotless i, sharp s).
MaxDigits == 31

DigitRun(n) == [i \in 1..n |-> 49]

Affixes == {<<>>, <<97>>, <<65>>, <<45>>, <<32>>, <<36>>, <<35>>, <<305>>, <<223>>}

DetectInputs ==
    {pre \o DigitRun(n) \o post : pre \in Affixes, n \in 0..MaxDigits, post \in Affixes}

InitDetect ==
    /\ slot = NoItem
    /\ now = 1
    /\ drawn = {}
    /\ calls = [c \in Calls |-> IdleCall]
    /\ last \in {[op |-> "input", input |-> s] : s \in DetectInputs}
    /\ script = NoScript

Detect ==
    /\ last.op = "input"
    /\ last' = [op |-> "detectBarcodeFormat", input |-> last.input,
                result |-> detectBarcodeFormat(last.input)]
    /\ UNCHANGED <<slot, now, drawn, calls, script>>

NextDetect == Detect

SpecDetect == InitDetect /\ [][NextDetect]_vars

\* createCard with store names the table knows exactly ("IKEA"), in part
\* ("al": 'aldi' is the first entry that contains it), not at all ("ab"),
\* and with the name "constructor"; under every answer of the logo service.
S_al == <<97,108>>

ColorInputs ==
    {IkeaInput, AbInput,
     Input(JStr(S_al), JStr(S_12345678), ""),
     Input(JStr(S_constructor), JStr(S_12345678), "")}

NextColor ==
    \/ Tick /\ UNCHANGED script
    \/ \E c \in Calls, input \in ColorInputs, rnd \in 1..NumRnd :
          CreateCardCall(c, input, rnd) /\ UNCHANGED script
    \/ \E c \in Calls, outcome \in ProbeOutcomes :
          ProbeRespond(c, outcome) /\ UNCHANGED script
    \/ \E c \in Calls, rnd \in 1..NumRnd :
          CreateContinue(c, TRUE, rnd) /\ UNCHANGED script
    \/ \E id \in AllIds : GetCardById(id) /\ UNCHANGED script

SpecColor == Init /\ [][NextColor]_vars

\* A caller that issues createCard, importCards and deleteCard calls and
\* then wipes the collection (Settings.handleDeleteAll) once, issuing no
\* call afterwards; the calls in flight at the wipe run on.  script.before
\* keeps the slot the wipe found.
WipeDocs == {JSONstringify(<<E_ikea, E_ab>>)}

NextWipe ==
    \/ Tick /\ UNCHANGED script
    \/ /\ script.pc = "none"
       /\ \E c \in Calls, rnd \in 1..NumRnd : CreateCardCall(c, IkeaInput, rnd)
       /\ UNCHANGED script
    \/ /\ script.pc = "none"
       /\ \E c \in Calls, text \in WipeDocs, rnd \in 1..NumRnd : ImportCardsCall(c, text, rnd)
       /\ UNCHANGED script
    \/ /\ script.pc = "none"
       /\ \E id \in AllIds : DeleteCard(id, TRUE)
       /\ UNCHANGED script
    \/ \E c \in Calls : ProbeRespond(c, "ok") /\ UNCHANGED script
    \/ \E c \in Calls, rnd \in 1..NumRnd : CreateContinue(c, TRUE, rnd) /\ UNCHANGED script
    \/ GetAllCards /\ UNCHANGED script
    \/ /\ script.pc = "none"
       /\ HandleDeleteAll
       /\ script' = [pc |-> "wiped", before |-> slot]

SpecWipe == Init /\ [][NextWipe]_vars
(***************************************************************************)
(* Properties.                                                             *)
(***************************************************************************)
\* The array the slot holds, in stored order ([] when there is none).
StoredOf(s) == IF s.kind = "array" THEN s.items ELSE <<>>
Stored == StoredOf(slot)

Range(s) == {s[i] : i \in 1..Len(s)}
BagOfSeq(s) == [x \in Range(s) |-> Cardinality({i \in 1..Len(s) : s[i] = x})]
IdsOf(cards) == {cards[i].id : i \in 1..Len(cards)}

\* The four fields exportCards writes.
UserFields(card) ==
    [storeName |-> card.storeName, cardNumber |-> card.cardNumber,
     barcodeFormat |-> card.barcodeFormat, isFavorite |-> card.isFavorite]
UserTuples(s) == LET cards == getAllCards(s) IN [i \in 1..Len(cards) |-> UserFields(cards[i])]

\* C1: exportCards, the wipe, then importCards of the exported text give a
\* collection with the same multiset of {storeName, cardNumber,
\* barcodeFormat, isFavorite} as before the wipe.
C1_RoundTrip ==
    script.pc = "imported" =>
        BagOfSeq(UserTuples(slot)) = BagOfSeq(UserTuples(script.before))

\* C2: no two records of the persisted collection have the same id.
C2_UniqueIds ==
    \A i, j \in 1..Len(Stored) : i # j => Stored[i].id # Stored[j].id


CreateCalls == {c \in Calls : calls[c].kind = "create"}
DoneCreates == {c \in CreateCalls : calls[c].pc = "done"}

\* C3 (as the code has it): two createCard calls issued without awaiting
\* each other lose no record.  The collection is read in the same
\* synchronous run that writes it, so when the calls have completed the
\* collection holds the record of each: as many records as completed calls,
\* the id of every completed call among them.
C3_NoLostCreate ==
    /\ Len(Stored) = Cardinality(DoneCreates)
    /\ \A c \in DoneCreates : calls[c].id \in IdsOf(Stored)

\* Two calls, the second issued while the first awaited its logo, have both
\* completed.
C3_Overlapped ==
    /\ DoneCreates = {1, 2}
    /\ calls[2].overlapped
    /\ IdsOf(Stored) = {calls[1].id, calls[2].id}

\* C3 as stated: when two overlapping createCard calls have completed, only
\* one of the two new records is in the collection.
C3_LostCreate ==
    (DoneCreates = {1, 2} /\ calls[2].overlapped) => Len(Stored) = 1

\* C4: a createCard call writes the slot at most once; it is ready to write
\* only when its logo lookup has resolved (to a logo URL or to the
\* fallback); and until it has written, no listing holds its record.
C4_OneWriteAfterLookup ==
    \A c \in CreateCalls :
        /\ calls[c].writes <= 1
        /\ calls[c].writes = 1 <=> calls[c].pc = "done"
        /\ calls[c].pc = "write" => calls[c].logoUrl # NoLogo
        /\ calls[c].pc \in {"probe", "write"} =>
               calls[c].id \notin IdsOf(getAllCards(slot))

\* A call whose every probe failed has written its record, with the
\* fallback URL, while another call still awaits its lookup.
C4_WrittenAfterFailedLookup ==
    \E c, d \in CreateCalls :
        /\ calls[c].pc = "done" /\ calls[c].writes = 1
        /\ getCardById(slot, calls[c].id).logoUrl = faviconUrl(S_IKEA)
        /\ calls[d].pc = "probe"

Listed == getAllCards(slot)

\* C5: getAllCards returns a permutation of the stored records with every
\* favorite before every non-favorite; within a favorite tier, used cards
\* before never used ones and used cards by descending lastUsedAt; within a
\* tier, never used cards by descending createdAt.
C5_ListOrder ==
    /\ BagOfSeq(Listed) = BagOfSeq(Stored)
    /\ \A i, j \in 1..Len(Listed) : i < j =>
          /\ Listed[j].isFavorite => Listed[i].isFavorite
          /\ Listed[i].isFavorite = Listed[j].isFavorite =>
                /\ Listed[j].lastUsedAt # NoTime =>
                      /\ Listed[i].lastUsedAt # NoTime
                      /\ Listed[i].lastUsedAt >= Listed[j].lastUsedAt
                /\ Listed[i].lastUsedAt = NoTime /\ Listed[j].lastUsedAt = NoTime =>
                      Listed[i].createdAt >= Listed[j].createdAt

\* A listing of three records that is not in stored order, with a favorite,
\* a non-favorite and a used card.
C5_Reordered ==
    /\ last.op = "getAllCards"
    /\ Len(Listed) = 3
    /\ Listed # Stored
    /\ Listed[1].isFavorite /\ ~Listed[3].isFavorite
    /\ \E i \in 1..3 : Listed[i].lastUsedAt # NoTime
    /\ \E i \in 1..3 : Listed[i].lastUsedAt = NoTime

\* C6: when createCard has returned a card, getCardById of its id returns
\* a record equal to it field by field, with lastUsedAt null and isFavorite
\* false.
C6_CreateThenGetById ==
    (last.op = "createCard" /\ ~last.threw) =>
        /\ getCardById(slot, last.card.id) = last.card
        /\ last.card.lastUsedAt = NoTime
        /\ ~last.card.isFavorite

\* createCard has returned a card into a collection that held a favorite.
C6_CreatedBesideFavorite ==
    /\ last.op = "createCard" /\ ~last.threw
    /\ Len(Listed) = 2
    /\ Listed[1].isFavorite
    /\ Listed[2] = last.card

\* A step in which deleteCard(id) returned.
DeleteReturned ==
    /\ last'.op = "deleteCard"
    /\ ~last'.threw
    /\ calls' = calls /\ now' = now

\* C7: deleteCard(id) of a present id returns true, getCardById(id) then
\* finds nothing, the listed ids are the previous ones less exactly that id
\* and every remaining record is unchanged; deleteCard of an absent id
\* returns false (and changes nothing).  deleteCard returns when its write
\* is persisted.
C7_Delete ==
    [][DeleteReturned =>
          /\ last'.result = (last'.id \in IdsOf(getAllCards(slot)))
          /\ getCardById(slot', last'.id) = NoCard
          /\ IdsOf(getAllCards(slot')) = IdsOf(getAllCards(slot)) \ {last'.id}
          /\ getAllCards(slot') =
                SelectSeq(getAllCards(slot), LAMBDA card : card.id # last'.id)
          /\ ~last'.result => slot' = slot]_vars

\* deleteCard returned true and left another record in the collection.
C7_DeletedOneOfTwo ==
    /\ last.op = "deleteCard"
    /\ last.result
    /\ Len(Listed) = 1
    /\ last.id \notin IdsOf(Listed)

ImportCalls == {c \in Calls : calls[c].kind = "import"}

\* C8: importCards of a text that does not parse, or that parses to a value
\* that is no array, is rejected, and the slot is as it was before the call
\* (the call writes nothing).
C8_InvalidFormat ==
    /\ [](\A c \in ImportCalls : ~IsArray(calls[c].text) =>
              calls[c].pc = "error" /\ calls[c].writes = 0)
    /\ [][\A c \in Calls :
              (calls[c].kind = "idle" /\ calls'[c].kind = "import"
                  /\ ~IsArray(calls'[c].text)) => slot' = slot]_vars

\* importCards of a text that parses to an object was rejected while the
\* collection held a record.
C8_ObjectRejected ==
    \E c \in ImportCalls :
        /\ calls[c].text = ObjectText
        /\ calls[c].pc = "error"
        /\ Len(Stored) = 1

\* An element with a non-empty storeName and a non-empty cardNumber.
Present(v) == v.t \notin {"undefined", "null"} /\ v # JStr(<<>>)
HasBoth(item) == Present(Prop(item, "storeName")) /\ Present(Prop(item, "cardNumber"))
CountBoth(items) == Cardinality({i \in 1..Len(items) : HasBoth(items[i])})

\* C9: the count importCards returns is the number of elements with both a
\* non-empty storeName and a non-empty cardNumber; the call has written
\* once per counted element, and each of its writes adds exactly one record
\* to the collection.
C9_ImportCount ==
    /\ [](\A c \in ImportCalls : calls[c].pc = "done" =>
              /\ calls[c].imported = CountBoth(calls[c].text.items)
              /\ calls[c].writes = calls[c].imported)
    /\ [][\A c \in ImportCalls :
              calls'[c].writes # calls[c].writes =>
                  /\ calls'[c].writes = calls[c].writes + 1
                  /\ Len(StoredOf(slot')) = Len(StoredOf(slot)) + 1]_vars

\* importCards of [well-formed, without cardNumber] returned 1, and the
\* collection holds one record.
C9_OneOfTwo ==
    \E c \in ImportCalls :
        /\ calls[c].text = JSONstringify(<<E_ikea, E_noNumber>>)
        /\ calls[c].pc = "done"
        /\ calls[c].imported = 1
        /\ Len(Stored) = 1

\* C10: importCards of an array is not rejected because of an element that
\* lacks a non-empty storeName or cardNumber, whatever JSON value the
\* element is: when the call is rejected, the element it stopped at has
\* both fields.
C10_SkipsWithoutError ==
    \A c \in ImportCalls :
        (calls[c].pc = "error" /\ IsArray(calls[c].text)) =>
            /\ calls[c].idx \in 1..Len(calls[c].text.items)
            /\ HasBoth(calls[c].text.items[calls[c].idx])

\* A step in which the id-addressed operation op returned (did not throw).
IdOpReturned(op) ==
    /\ last'.op = op
    /\ calls' = calls /\ now' = now
    /\ ~last'.threw

PresentBefore(id) == id \in IdsOf(getAllCards(slot))

\* C11: getCardById, updateCard, deleteCard, toggleFavorite and markAsUsed
\* never throw on an absent id, and what they return for an absent id
\* (undefined, null, false, false, nothing) is returned for no present id:
\* the caller can tell not-found from every outcome on a present id.
C11_NotFoundDistinct ==
    [][/\ (last'.op = "getCardById" /\ calls' = calls /\ now' = now) =>
              ((getCardById(slot, last'.id) = NoCard) <=> ~PresentBefore(last'.id))
       /\ (last'.op \in {"updateCard", "deleteCard", "toggleFavorite", "markAsUsed"}
              /\ calls' = calls /\ now' = now /\ ~PresentBefore(last'.id)) =>
              ~last'.threw
       /\ IdOpReturned("updateCard") =>
              ((last'.card = NoCard) <=> ~PresentBefore(last'.id))
       /\ IdOpReturned("deleteCard") =>
              ((last'.result = FALSE) <=> ~PresentBefore(last'.id))
       /\ IdOpReturned("toggleFavorite") =>
              ((last'.result = FALSE) <=> ~PresentBefore(last'.id))
       /\ IdOpReturned("markAsUsed") => ~PresentBefore(last'.id)]_vars

\* C12: getAllCards never throws, and when the slot is absent, unreadable,
\* holds text that does not parse or holds a parsed value that is no array,
\* it returns the empty sequence.
C12_ListNeverThrows ==
    /\ last.op = "getAllCards" => ~last.threw
    /\ slot.kind # "array" => getAllCards(slot) = <<>>
    /\ slot.kind # "array" => \A id \in AllIds : getCardById(slot, id) = NoCard

\* getAllCards has been called on a slot whose text does not parse.
C12_ListedGarbage ==
    /\ last.op = "getAllCards"
    /\ slot = GarbageText

WriteOps == {"updateCard", "deleteCard", "toggleFavorite", "markAsUsed"}

\* C13: when the write of createCard, updateCard, deleteCard, toggleFavorite
\* or markAsUsed fails, the call throws and the slot is as before the call:
\* a call that throws leaves the slot unchanged, and a call on a present id
\* that returns normally has its write in the slot.
C13_WriteFailure ==
    [][/\ (last'.op \in WriteOps /\ calls' = calls /\ now' = now /\ last'.threw) =>
              slot' = slot
       /\ (last'.op = "createCard" /\ last'.threw) => slot' = slot
       /\ (last'.op = "createCard" /\ ~last'.threw /\ calls' # calls) =>
              last'.card \in Range(StoredOf(slot'))
       /\ (IdOpReturned("updateCard") /\ PresentBefore(last'.id)) =>
              last'.card \in Range(StoredOf(slot'))
       /\ (IdOpReturned("deleteCard") /\ PresentBefore(last'.id)) =>
              last'.id \notin IdsOf(StoredOf(slot'))
       /\ (IdOpReturned("toggleFavorite") /\ PresentBefore(last'.id)) =>
              \E card \in Range(StoredOf(slot')) :
                  card.id = last'.id /\ card.isFavorite = last'.result
       /\ (IdOpReturned("markAsUsed") /\ PresentBefore(last'.id)) =>
              \E card \in Range(StoredOf(slot')) :
                  card.id = last'.id /\ card.lastUsedAt = now]_vars

\* toggleFavorite of a present id threw on its write; the card is still in
\* the collection, not a favorite.
C13_ToggleWriteFailed ==
    /\ last.op = "toggleFavorite"
    /\ last.threw
    /\ getCardById(slot, last.id) # NoCard
    /\ ~getCardById(slot, last.id).isFavorite

\* C14: an importCards call that is rejected (the text is no array, an
\* element fails, a write fails) leaves no record of its own in the
\* collection: it has written nothing.
C14_FailedImportWritesNothing ==
    \A c \in ImportCalls : calls[c].pc = "error" => calls[c].writes = 0

\* C15: when no candidate probe answered ok, the logo a createCard call
\* resolves to is null: the logoUrl of a call that is ready to write, and
\* of every stored record, is the URL of a candidate domain or null.
C15_FailedLookupGivesNoLogo ==
    /\ \A c \in CreateCalls : calls[c].pc = "write" =>
          \/ calls[c].logoUrl = NoLogo
          \/ \E k \in 1..Len(DOMAINS) :
                calls[c].logoUrl = clearbitUrl(calls[c].input.storeName.s, k)
    /\ \A i \in 1..Len(Stored) :
          \/ Stored[i].logoUrl = NoLogo
          \/ \E k \in 1..Len(DOMAINS) :
                Stored[i].logoUrl = clearbitUrl(Stored[i].storeName.s, k)

\* C16: every createCard call eventually completes, even when a probe of its
\* logo lookup never gets an answer.
C16_CreateCompletes ==
    \A c \in Calls :
        (calls[c].pc = "probe") ~> (calls[c].pc \in {"done", "error"})

\* C17: the createdAt a card has when it is first persisted is the one it
\* has in every later state that holds a record with its id: no step
\* changes the createdAt of a record that stays in the collection.
C17_CreatedAtKept ==
    [][\A i \in 1..Len(StoredOf(slot)), j \in 1..Len(StoredOf(slot')) :
          StoredOf(slot)[i].id = StoredOf(slot')[j].id =>
              StoredOf(slot)[i].createdAt = StoredOf(slot')[j].createdAt]_vars

\* C18: updateCard(id, updates) on a present id leaves the record equal to
\* the old one with exactly the fields of updates overridden (barcodeFormat
\* and brandColor as they were unless supplied, also when storeName and
\* cardNumber change) and every other record unchanged; on an absent id it
\* returns null and changes nothing.
C18_UpdateMerges ==
    [][/\ (IdOpReturned("updateCard") /\ PresentBefore(last'.id)) =>
              /\ Len(StoredOf(slot')) = Len(getAllCards(slot))
              /\ \E i \in 1..Len(getAllCards(slot)) :
                    /\ getAllCards(slot)[i].id = last'.id
                    /\ StoredOf(slot')[i] = last'.card
                    /\ DOMAIN last'.card = DOMAIN getAllCards(slot)[i]
                    /\ \A f \in DOMAIN last'.card :
                          last'.card[f] = IF f \in DOMAIN last'.updates
                                          THEN last'.updates[f]
                                          ELSE getAllCards(slot)[i][f]
                    /\ \A j \in 1..Len(getAllCards(slot)) :
                          j # i => StoredOf(slot')[j] = getAllCards(slot)[j]
       /\ (IdOpReturned("updateCard") /\ ~PresentBefore(last'.id)) =>
              /\ last'.card = NoCard
              /\ slot' = slot]_vars

\* updateCard gave one of two cards a new name and number; the card has
\* the format and the brand colour it was created with.
C18_RenamedKeepsFormat ==
    /\ last.op = "updateCard" /\ ~last.threw
    /\ Len(Stored) = 2
    /\ last.card.storeName = JStr(S_ab) /\ last.card.cardNumber = JStr(S_A1)
    /\ last.card.barcodeFormat = detectBarcodeFormat(S_12345678)
    /\ last.card.barcodeFormat # detectBarcodeFormat(S_A1)
    /\ last.card.brandColor = brandColorOf(S_IKEA)
    /\ last.card.brandColor # brandColorOf(S_ab)

\* C19: once deleteCard(id) has returned true, no later state of the
\* collection holds a record with that id: whatever completes next after
\* the deletion (an operation, a createCard or importCards that was in
\* flight) leaves the id absent.
C19_StaysDeleted ==
    [][(last.op = "deleteCard" /\ last.result) =>
          last.id \notin IdsOf(StoredOf(slot'))]_vars

\* C20: toggleFavorite(id) on a present id returns the new favorite state,
\* and a second toggleFavorite(id) right after it gives the collection back
\* as it was: the record has its original isFavorite and every other field
\* of every record is unchanged.
C20_DoubleToggle ==
    /\ script.pc = "once" =>
          last.result = ~getCardById(script.before, script.id).isFavorite
    /\ script.pc = "twice" =>
          /\ last.result = getCardById(script.before, script.id).isFavorite
          /\ BagOfSeq(Stored) = BagOfSeq(StoredOf(script.before))

\* C21: the barcodeFormat of every persisted record is one of CODE128,
\* EAN13, EAN8, UPC, CODE39, QR.
C21_FormatInClosedSet ==
    \A i \in 1..Len(Stored) : Stored[i].barcodeFormat \in FORMATS

\* The card number and the barcodeFormat a createCard call was handed: the
\* call's own input, or the fields of the import element it is working on.
RawNumber(c) ==
    IF calls[c].kind = "import"
    THEN calls[c].text.items[calls[c].idx].f.cardNumber
    ELSE calls[c].input.cardNumber

SuppliedFormat(c) ==
    IF calls[c].kind = "import"
    THEN LET f == calls[c].text.items[calls[c].idx].f
         IN  IF "barcodeFormat" \in DOMAIN f THEN f.barcodeFormat ELSE ""
    ELSE calls[c].input.barcodeFormat

\* C24: the record a create writes has the call's fresh id, the card number
\* exactly as supplied (not cleaned), and the supplied barcodeFormat when one
\* is given, otherwise the format inferred from the card number.
C24_CreatedRecord ==
    [][\A c \in Calls :
          (calls[c].pc = "write" /\ calls'[c].writes = calls[c].writes + 1)
          => LET card == Head(StoredOf(slot'))
             IN  /\ card.id = calls[c].id
                 /\ card.cardNumber = RawNumber(c)
                 /\ card.barcodeFormat =
                        IF SuppliedFormat(c) # ""
                        THEN SuppliedFormat(c)
                        ELSE detectBarcodeFormat(RawNumber(c).s)]_vars

\* A supplied QR next to an inferred EAN8, the hyphen of "A-1" kept.
C24_SuppliedAndInferred ==
    /\ \E i \in 1..Len(Stored) :
          /\ Stored[i].cardNumber = JStr(S_A1)
          /\ Stored[i].barcodeFormat = "QR"
    /\ \E i \in 1..Len(Stored) :
          /\ Stored[i].cardNumber = JStr(S_12345678)
          /\ Stored[i].barcodeFormat = "EAN8"

ExportedFields == {"storeName", "cardNumber", "barcodeFormat", "isFavorite"}

\* C22: exportCards yields a sequence with the length and the order of
\* getAllCards, whose k-th element has exactly the fields storeName,
\* cardNumber, barcodeFormat and isFavorite, with the values of the k-th
\* listed card, and no id, logoUrl, createdAt or lastUsedAt.
C22_ExportIsListedView ==
    [][(last'.op = "exportCards" /\ calls' = calls /\ now' = now) =>
          LET out == last'.text.items
              cards == getAllCards(slot)
          IN  /\ last'.text.kind = "array"
              /\ Len(out) = Len(cards)
              /\ \A k \in 1..Len(out) :
                    /\ out[k].t = "object"
                    /\ DOMAIN out[k].f = ExportedFields
                    /\ out[k].f.storeName = cards[k].storeName
                    /\ out[k].f.cardNumber = cards[k].cardNumber
                    /\ out[k].f.barcodeFormat = cards[k].barcodeFormat
                    /\ out[k].f.isFavorite = cards[k].isFavorite]_vars

\* Two cards have been exported whose listed order is not their stored order.
C22_ExportedReordered ==
    /\ last.op = "exportCards"
    /\ Len(last.text.items) = 2
    /\ Listed # Stored
    /\ last.text = exportCards(slot)

\* The rules of the format classifier, as the specification lists them.  A
\* character is of the Code-39 alphabet in either case when its upper-case
\* form is made of upper-case letters, digits and - . space $ / + %.
Cleaned(s) == SelectSeq(s, LAMBDA ch : ch \notin Whitespace \cup {Hyphen})
AllDigits(t) == t # <<>> /\ \A i \in 1..Len(t) : t[i] \in 48..57
Code39Char(ch) ==
    \A u \in Range(UpperOf(ch)) :
        u \in (48..57) \cup (65..90) \cup {45, 46, 32, 36, 47, 43, 37}
OnlyCode39(t) == t # <<>> /\ \A i \in 1..Len(t) : Code39Char(t[i])

ExpectedFormat(s) ==
    LET t == Cleaned(s)
    IN  IF AllDigits(t) /\ Len(t) = 13 THEN "EAN13"
        ELSE IF AllDigits(t) /\ Len(t) = 8 THEN "EAN8"
        ELSE IF AllDigits(t) /\ Len(t) = 12 THEN "UPC"
        ELSE IF OnlyCode39(t) /\ Len(t) <= 20 THEN "CODE39"
        ELSE IF Len(t) > 30 THEN "QR"
        ELSE "CODE128"

\* C23: detectBarcodeFormat returns, for every input string, the tag of the
\* first matching rule applied to the input with whitespace and hyphens
\* removed: all digits of length 13 EAN13, of length 8 EAN8, of length 12
\* UPC; only Code-39 alphabet characters (in either case) and length at most
\* 20 CODE39; length above 30 QR; otherwise CODE128, also for the empty
\* string.
C23_FirstMatchingRule ==
    last.op = "detectBarcodeFormat" =>
        /\ last.result \in FORMATS
        /\ last.result = ExpectedFormat(last.input)
        /\ Cleaned(last.input) = <<>> => last.result = "CODE128"

\* Thirteen digits after a hyphen have been classified: EAN13, although the
\* digits are Code-39 characters too and the input has fourteen characters.
C23_HyphenAndThirteenDigits ==
    /\ last.op = "detectBarcodeFormat"
    /\ last.input = <<45>> \o DigitRun(13)
    /\ last.result = "EAN13"

\* The color the specification gives a store name: the table entry of the
\* lower-cased name; else the first table entry the name contains or is
\* contained in; else the palette entry of the name's hash.
ExpectedColor(name) ==
    LET lower == toLowerCase(name)
        Exact(i) == BRAND_COLORS[i].brand = lower
        Partial(i) == \/ includes(lower, BRAND_COLORS[i].brand)
                      \/ includes(BRAND_COLORS[i].brand, lower)
        Rows == 1..Len(BRAND_COLORS)
    IN  IF \E i \in Rows : Exact(i)
        THEN BRAND_COLORS[CHOOSE i \in Rows : Exact(i)].color
        ELSE IF \E i \in Rows : Partial(i)
        THEN BRAND_COLORS[CHOOSE i \in Rows : Partial(i) /\ \A j \in 1..(i - 1) : ~Partial(j)].color
        ELSE generateColorFromName(name)

\* Two calls that hold their color hold the same one when their store names
\* are the same, whatever the collection and the probes.
SameNameSameColor ==
    \A c, d \in Calls :
        (calls[c].pc \in {"probe", "write"} /\ calls[d].pc \in {"probe", "write"}
            /\ calls[c].input.storeName = calls[d].input.storeName)
        => calls[c].brandColor = calls[d].brandColor

\* Apart from the names that spell an inherited member of the table object,
\* a created record has the color the specification gives its name.
ColorFollowsTable ==
    (last.op = "createCard" /\ ~last.threw
        /\ toLowerCase(last.card.storeName.s) \notin {S_constructor, S_proto})
    => last.card.brandColor = ExpectedColor(last.card.storeName.s)

\* C25: the brandColor of a created record is a function of storeName alone,
\* whatever the collection holds and whatever the logo probes answer: the
\* color of an exact table match, else of the first partial match, else the
\* palette color of the name's hash.
C25_ColorFromNameAlone ==
    /\ SameNameSameColor
    /\ (last.op = "createCard" /\ ~last.threw) =>
           last.card.brandColor = ExpectedColor(last.card.storeName.s)

\* A step of handleDeleteAll.
Wiped ==
    /\ last'.op = "handleDeleteAll"
    /\ calls' = calls /\ now' = now

\* C26: right after handleDeleteAll, getAllCards is empty and getCardById
\* finds no id; on an empty or absent collection the wipe leaves it empty
\* as well.
C26_WipeEmpties ==
    [][Wiped => /\ getAllCards(slot') = <<>>
                /\ \A id \in AllIds : getCardById(slot', id) = NoCard
                /\ getAllCards(slot) = <<>> => slot' = NoItem]_vars

\* A collection that held the card of a completed createCard has been wiped.
C26_WipedACard ==
    /\ last.op = "handleDeleteAll"
    /\ script.pc = "wiped"
    /\ slot = NoItem
    /\ \E c \in DoneCreates : getCardById(script.before, calls[c].id) # NoCard

\* C29: after handleDeleteAll the collection stays empty until a createCard
\* or importCards call is issued after the wipe; a call issued before the
\* wipe that still awaits its logo lookup adds no record afterwards.  (No
\* call is issued after the wipe here.)
C29_StaysEmptyAfterWipe ==
    script.pc = "wiped" => getAllCards(slot) = <<>>

\* C27: after markAsUsed of a present id at a time later than every
\* lastUsedAt of the collection, only the lastUsedAt of that card has
\* changed (every other record is as before), and getAllCards lists the
\* card before every other card with the same isFavorite.
C27_MarkedListsFirst ==
    [][(/\ IdOpReturned("markAsUsed")
        /\ PresentBefore(last'.id)
        /\ \A i \in 1..Len(StoredOf(slot)) : StoredOf(slot)[i].lastUsedAt < now)
       => \E r \in Range(StoredOf(slot)) :
             LET marked == [r EXCEPT !.lastUsedAt = now]
                 post == getAllCards(slot')
             IN  /\ r.id = last'.id
                 /\ BagOfSeq(StoredOf(slot')) =
                        (BagOfSeq(StoredOf(slot)) (-) SetToBag({r})) (+) SetToBag({marked})
                 /\ \E p \in 1..Len(post) :
                       /\ post[p] = marked
                       /\ \A q \in 1..Len(post) :
                             (q # p /\ post[q].isFavorite = marked.isFavorite) => p < q]_vars

\* The card marked now is listed before a card that was used earlier.
C27_OvertookUsedCard ==
    /\ last.op = "markAsUsed" /\ ~last.threw
    /\ Len(Listed) = 2
    /\ Listed[1].id = last.id
    /\ Listed[1].lastUsedAt = now
    /\ Listed[2].lastUsedAt # NoTime
    /\ Listed[2].lastUsedAt < now
    /\ Listed[1].isFavorite = Listed[2].isFavorite

ReadOps == {"getAllCards", "getCardById", "exportCards"}

\* C28: the slot is written only by a mutation that succeeds: getAllCards,
\* getCardById and exportCards, and updateCard, deleteCard, toggleFavorite
\* and markAsUsed called with an id the collection does not hold, leave the
\* slot as it is.
C28_ReadsAndMissesWriteNothing ==
    [][/\ (last'.op \in ReadOps /\ calls' = calls /\ now' = now) => slot' = slot
       /\ (last'.op \in WriteOps /\ calls' = calls /\ now' = now
               /\ ~PresentBefore(last'.id)) => slot' = slot]_vars

\* getAllCards has returned two cards in an order that is not the stored
\* one, and the stored order is still there.
C28_ListedWithoutSaving ==
    /\ last.op = "getAllCards"
    /\ Len(Stored) = 2
    /\ Listed # Stored

\* C30: while the slot holds content that cannot be read as a card sequence
\* (text that does not parse, a parsed value that is no array, an item that
\* cannot be read), no operation of the card store overwrites it:
\* toggleFavorite and the other id-addressed operations leave it untouched,
\* and createCard does not replace it with a collection of the new record.
C30_UnreadableKept ==
    [][tryThrows(slot) => slot' = slot]_vars
====
